---- MODULE Spec2Model ----
(***************************************************************************)
(* go-secure-backup-s3: main.go as a state machine.                        *)
(*                                                                         *)
(* One run of main: flag.Parse, validateInputs, ZipFolder (filepath.Walk   *)
(* over the folder), EncryptAndSign (two armored key rings, the unlock     *)
(* loop, openpgp.Encrypt, Write, Close) and UploadToS3 (NewSession,        *)
(* PutObject).  The filesystem, the key files and the object store are the *)
(* environment: what a call observes is drawn when the call is made.       *)
(*                                                                         *)
(* Strings that the code computes with (paths, archive entry names) are    *)
(* sequences of one-character strings, so that filepath.Join/Clean and     *)
(* strings.TrimPrefix are computed and not assumed.                        *)
(***************************************************************************)
EXTENDS Integers, Sequences, FiniteSets, TLC

\* ------------------------------------------------------------- bounds

\* Filesystem entries (files and directories below the root) one walk may meet.
MaxEntries == 3

\* Directory nesting below the root (length of a relative path, in names).
MaxDepth == 2

\* Identities in the server-private blob, and recipients in the public blob.
MaxIdentities == 2

MaxRecipients == 1

\* File and directory names, in sort.Strings order.
Alphabet == <<"a", "b">>

\* File contents.
Contents == {"h", "w"}

\* Passphrases that protect identities of the private blob.
Passphrases == {"pw1", "pw2"}

\* ------------------------------------------------------------ strings

Sep == "/"

\* strings.HasPrefix
HasPrefix(s, prefix) ==
    /\ Len(s) >= Len(prefix)
    /\ SubSeq(s, 1, Len(prefix)) = prefix

\* strings.TrimPrefix: s without the leading prefix, or s itself.
TrimPrefix(s, prefix) ==
    IF HasPrefix(s, prefix) THEN SubSeq(s, Len(prefix) + 1, Len(s)) ELSE s

\* The elements of a path between separators (empty ones included).
RECURSIVE Split(_)
Split(s) ==
    IF \A i \in 1..Len(s) : s[i] # Sep
    THEN <<s>>
    ELSE LET k == CHOOSE i \in 1..Len(s) :
                    /\ s[i] = Sep
                    /\ \A j \in 1..(i - 1) : s[j] # Sep
         IN  <<SubSeq(s, 1, k - 1)>> \o Split(SubSeq(s, k + 1, Len(s)))

\* strings.Join(elems, "/")
RECURSIVE JoinSep(_)
JoinSep(elems) ==
    IF Len(elems) = 0 THEN <<>>
    ELSE IF Len(elems) = 1 THEN elems[1]
    ELSE elems[1] \o <<Sep>> \o JoinSep(Tail(elems))

Dot == <<".">>

DotDot == <<".", ".">>

\* filepath.Clean's element loop: drop empty and "." elements, let ".." remove
\* the element before it, drop ".." at the root, keep a leading ".." otherwise.
RECURSIVE CleanElems(_, _, _)
CleanElems(elems, out, rooted) ==
    IF Len(elems) = 0 THEN out
    ELSE LET e == Head(elems)
             rest == Tail(elems)
         IN  IF e = <<>> \/ e = Dot THEN CleanElems(rest, out, rooted)
             ELSE IF e = DotDot
                  THEN IF Len(out) > 0 /\ out[Len(out)] # DotDot
                       THEN CleanElems(rest, SubSeq(out, 1, Len(out) - 1), rooted)
                       ELSE IF rooted THEN CleanElems(rest, out, rooted)
                       ELSE CleanElems(rest, Append(out, e), rooted)
             ELSE CleanElems(rest, Append(out, e), rooted)

\* filepath.Clean
Clean(path) ==
    IF Len(path) = 0 THEN Dot
    ELSE LET rooted == path[1] = Sep
             body == JoinSep(CleanElems(Split(path), <<>>, rooted))
             res == IF rooted THEN <<Sep>> \o body ELSE body
         IN  IF Len(res) = 0 THEN Dot ELSE res

\* filepath.Join(dir, name) as filepath.Walk calls it, dir non-empty.
Join(dir, name) == Clean(dir \o <<Sep>> \o name)

\* The names of a set in sort.Strings order (readDirNames sorts).
RECURSIVE SortedFrom(_, _)
SortedFrom(names, i) ==
    IF i > Len(Alphabet) THEN <<>>
    ELSE (IF Alphabet[i] \in names THEN <<Alphabet[i]>> ELSE <<>>)
         \o SortedFrom(names, i + 1)

SortNames(names) == SortedFrom(names, 1)

Names == {Alphabet[i] : i \in 1..Len(Alphabet)}

\* -------------------------------------------------------------- state

VARIABLES
    cfg,        \* the nine flag values after flag.Parse
    fs,         \* what os.Stat finds at the three configured paths
    pc,         \* main's position
    stdout,     \* lines main printed
    result,     \* per stage: "none" (not run), "ok", or how it failed
    effects,    \* side effects so far: files read, key files opened, network
    pending,    \* filepath.Walk: paths still to visit, next first
    found,      \* regular files the walk has met, in the order met
    archive,    \* zipBuffer's entries
    zipClosed,  \* zipWriter.Close has written the central directory
    ioFailed,   \* some lstat, directory listing or read failed in the walk
    budget,     \* filesystem entries the walk may still meet
    publicKeyList,
    privateKeyList,
    privBlob,   \* the private blob's identities as listed in the file
    idx,        \* the unlock loop's position in privateKeyList
    encCall,    \* the arguments openpgp.Encrypt was called with, if it was
    encryptedBuffer,
    s3obj       \* the object stored at bucket/key

vars == <<cfg, fs, pc, stdout, result, effects, pending, found, archive,
          zipClosed, ioFailed, budget, publicKeyList, privateKeyList,
          privBlob, idx, encCall, encryptedBuffer, s3obj>>

zipVars == <<pending, found, archive, zipClosed, ioFailed, budget>>

keyVars == <<publicKeyList, privateKeyList, privBlob, idx, encCall>>

\* Folder paths an operator may give for a directory r.
FolderPaths ==
    { <<"/", "r">>, <<"/", "r", "/">>, <<"r">>, <<"r", "/">>,
      <<".", "/", "r">>, <<".", ".", "/", "r">>, <<".", ".", "/", "r", "/">> }

\* What os.Stat can find at a path: nothing (ENOENT), a file, a directory, or
\* an error that is not ENOENT (EACCES, ENOTDIR, ...).
StatKinds == {"missing", "file", "dir", "staterr"}

NoCall == [called |-> FALSE]

NoBuffer == [recipients |-> 0, signer |-> 0, body |-> <<>>, final |-> FALSE]

NoResult == [validate |-> "none", zip |-> "none", encrypt |-> "none", upload |-> "none"]

Init ==
    /\ cfg \in [ folderPath : FolderPaths \cup {<<>>},
                 trustedPublicKeyPath : {"", "pub.asc"},
                 serverPrivateKeyPath : {"", "priv.asc"},
                 signingKeyPassword : {"", "pw1"},
                 bucketName : {"", "bkt"},
                 s3KeyName : {"", "key"},
                 awsRegion : {"", "eu"},
                 awsAccessKey : {"", "ak"},
                 awsSecretKey : {"", "sk"} ]
    /\ fs \in [ folder : StatKinds, tpub : StatKinds, spriv : StatKinds ]
    /\ pc = "validate"
    /\ stdout = <<>>
    /\ result = NoResult
    /\ effects = {}
    /\ pending = <<>>
    /\ found = <<>>
    /\ archive = <<>>
    /\ zipClosed = FALSE
    /\ ioFailed = FALSE
    /\ budget = MaxEntries
    /\ publicKeyList = <<>>
    /\ privateKeyList = <<>>
    /\ privBlob = <<>>
    /\ idx = 0
    /\ encCall = NoCall
    /\ encryptedBuffer = NoBuffer
    /\ s3obj = <<>>

\* ----------------------------------------------------------- validate

\* isDirExists: "panic" is the nil info dereferenced when Stat fails with an
\* error that is not ENOENT.
isDirExists(kind) ==
    IF kind = "missing" THEN "false"
    ELSE IF kind = "staterr" THEN "panic"
    ELSE IF kind = "dir" THEN "true" ELSE "false"

\* isFileExists: everything but ENOENT counts as existing.
isFileExists(kind) == kind # "missing"

\* validateInputs: "ok", the error message, or "panic" (from isDirExists).
validateInputs(c, f) ==
    IF c.folderPath = <<>> THEN "Invalid or missing folder path"
    ELSE IF isDirExists(f.folder) = "panic" THEN "panic"
    ELSE IF isDirExists(f.folder) = "false" THEN "Invalid or missing folder path"
    ELSE IF c.trustedPublicKeyPath = "" \/ ~isFileExists(f.tpub)
         THEN "Invalid or missing trusted public key path"
    ELSE IF c.serverPrivateKeyPath = "" \/ ~isFileExists(f.spriv)
         THEN "Invalid or missing server private key path"
    ELSE IF c.signingKeyPassword = "" THEN "Invalid or missing signing key password"
    ELSE IF c.awsRegion = "" THEN "Invalid or missing S3 bucket region"
    ELSE IF c.bucketName = "" \/ c.s3KeyName = ""
         THEN "Invalid or missing S3 bucket name or key name"
    ELSE IF c.awsAccessKey = "" \/ c.awsSecretKey = ""
         THEN "Invalid or missing AWS access key or secret key"
    ELSE "ok"

\* ---------------------------------------------------------------- main

SetResult(stage, r) == [result EXCEPT ![stage] = r]

\* AfterValidate without the return of line 41: main goes on after printing.
AfterValidate_FallThrough(r) == IF r = "panic" THEN "panicked" ELSE "zip"

\* main, lines 39-42: a validation error is printed and main returns.
AfterValidate(r) ==
    IF r = "ok" THEN "zip" ELSE IF r = "panic" THEN "panicked" ELSE "exit"

\* main, lines 46-48: panic(err) unless ZipFolder returned nil.
AfterZip(r) == IF r = "ok" THEN "encrypt" ELSE "panicked"

\* AfterEncrypt with the error of EncryptAndSign dropped.
AfterEncrypt_IgnoreError(r) == "upload"

\* main, lines 52-54: panic(err) unless EncryptAndSign returned nil.
AfterEncrypt(r) == IF r = "ok" THEN "upload" ELSE "panicked"

\* main, lines 57-59: panic(err) unless UploadToS3 returned nil.
AfterUpload(r) == IF r = "ok" THEN "print" ELSE "panicked"

Validate ==
    /\ pc = "validate"
    /\ LET r == validateInputs(cfg, fs)
       IN  /\ pc' = AfterValidate(r)
           /\ result' = SetResult("validate",
                            IF r \in {"ok", "panic"} THEN r ELSE "rejected")
           /\ stdout' = IF r \in {"ok", "panic"} THEN stdout
                        ELSE Append(stdout, <<"Error:", r>>)
    /\ UNCHANGED <<cfg, fs, effects, zipVars, keyVars, encryptedBuffer, s3obj>>

\* ----------------------------------------------------------- ZipFolder

\* The archive entry's name, line 141.
EntryName(path, folderPath) == TrimPrefix(path, folderPath \o <<Sep>>)

\* ZipFolder is entered: zip.NewWriter, and filepath.Walk starts at the root,
\* which it takes as given.
ZipStart ==
    /\ pc = "zip"
    /\ pc' = "walk"
    /\ pending' = <<[path |-> cfg.folderPath, rel |-> <<>>]>>
    /\ UNCHANGED <<cfg, fs, stdout, result, effects, found, archive, zipClosed,
                   ioFailed, budget, keyVars, encryptedBuffer, s3obj>>

\* Lstat of the next path fails: Walk hands the callback a nil info, and the
\* callback's info.IsDir() panics.
WalkLstatError ==
    /\ pc = "walk" /\ pending # <<>>
    /\ ioFailed' = TRUE
    /\ result' = SetResult("zip", "panic")
    /\ pc' = "panicked"
    /\ UNCHANGED <<cfg, fs, stdout, effects, pending, found, archive, zipClosed,
                   budget, keyVars, encryptedBuffer, s3obj>>

\* A regular file that reads: one entry, named by TrimPrefix, with its bytes.
WalkFile ==
    /\ pc = "walk" /\ pending # <<>>
    /\ LET it == Head(pending)
       IN  /\ it.rel # <<>>
           /\ \E data \in Contents :
                /\ found' = Append(found, [rel |-> it.rel, data |-> data])
                /\ archive' = Append(archive,
                                 [name |-> EntryName(it.path, cfg.folderPath),
                                  data |-> data])
    /\ pending' = Tail(pending)
    /\ effects' = effects \cup {"readfile"}
    /\ UNCHANGED <<cfg, fs, pc, stdout, result, zipClosed, ioFailed, budget,
                   keyVars, encryptedBuffer, s3obj>>

\* A regular file that does not read: the callback returns the error, Walk
\* and ZipFolder return it, main panics.
WalkFileReadError ==
    /\ pc = "walk" /\ pending # <<>>
    /\ Head(pending).rel # <<>>
    /\ found' = Append(found, [rel |-> Head(pending).rel, data |-> "unreadable"])
    /\ ioFailed' = TRUE
    /\ effects' = effects \cup {"readfile"}
    /\ result' = SetResult("zip", "ioerror")
    /\ pc' = AfterZip("ioerror")
    /\ UNCHANGED <<cfg, fs, stdout, pending, archive, zipClosed, budget,
                   keyVars, encryptedBuffer, s3obj>>

\* A directory that lists: the callback returns nil for it, and Walk goes on
\* with its names, sorted, each joined to the directory's path.
WalkDir ==
    /\ pc = "walk" /\ pending # <<>>
    /\ LET it == Head(pending)
       IN  \E names \in SUBSET Names :
             /\ Cardinality(names) <= budget
             /\ names # {} => Len(it.rel) < MaxDepth
             /\ budget' = budget - Cardinality(names)
             /\ LET sorted == SortNames(names)
                    kids == [i \in 1..Len(sorted) |->
                               [path |-> Join(it.path, <<sorted[i]>>),
                                rel |-> Append(it.rel, sorted[i])]]
                IN  pending' = kids \o Tail(pending)
    /\ UNCHANGED <<cfg, fs, pc, stdout, result, effects, found, archive,
                   zipClosed, ioFailed, keyVars, encryptedBuffer, s3obj>>

\* A directory that does not list: the callback ignores the error it is
\* handed and returns nil, so Walk skips the directory and goes on.
WalkDirError ==
    /\ pc = "walk" /\ pending # <<>>
    /\ ioFailed' = TRUE
    /\ pending' = Tail(pending)
    /\ UNCHANGED <<cfg, fs, pc, stdout, result, effects, found, archive,
                   zipClosed, budget, keyVars, encryptedBuffer, s3obj>>

\* Walk returned nil: zipWriter.Close, and ZipFolder returns nil to main.
ZipClose ==
    /\ pc = "walk" /\ pending = <<>>
    /\ zipClosed' = TRUE
    /\ result' = SetResult("zip", "ok")
    /\ pc' = AfterZip("ok")
    /\ UNCHANGED <<cfg, fs, stdout, effects, pending, found, archive, ioFailed,
                   budget, keyVars, encryptedBuffer, s3obj>>

\* ------------------------------------------------------ EncryptAndSign

\* Identities a key file can list: public only (no private key material),
\* private and unprotected, or private and protected by a passphrase.
Identities ==
    {[priv |-> "none", pass |-> ""], [priv |-> "plain", pass |-> ""]}
    \cup {[priv |-> "locked", pass |-> p] : p \in Passphrases}

SeqsUpTo(S, n) == UNION {[1..k -> S] : k \in 0..n}

Fail(r) ==
    /\ result' = SetResult("encrypt", r)
    /\ pc' = AfterEncrypt(r)

\* Lines 171-180: os.Open and openpgp.ReadArmoredKeyRing of the trusted public
\* key.  A ring may parse to no identity at all.
LoadPublicKeyRing ==
    /\ pc = "encrypt"
    /\ effects' = effects \cup {"openpub"}
    /\ \/ /\ Fail("ioerror")
          /\ UNCHANGED publicKeyList
       \/ /\ fs.tpub \in {"file", "dir"}
          /\ Fail("format")
          /\ UNCHANGED publicKeyList
       \/ /\ fs.tpub = "file"
          /\ \E n \in 0..MaxRecipients :
                publicKeyList' = [i \in 1..n |-> [id |-> i]]
          /\ pc' = "loadpriv"
          /\ UNCHANGED result
    /\ UNCHANGED <<cfg, fs, stdout, zipVars, privateKeyList, privBlob, idx,
                   encCall, encryptedBuffer, s3obj>>

\* Lines 183-192: the same for the server private key.
LoadPrivateKeyRing ==
    /\ pc = "loadpriv"
    /\ effects' = effects \cup {"openpriv"}
    /\ \/ /\ Fail("ioerror")
          /\ UNCHANGED <<privateKeyList, privBlob, idx>>
       \/ /\ fs.spriv \in {"file", "dir"}
          /\ Fail("format")
          /\ UNCHANGED <<privateKeyList, privBlob, idx>>
       \/ /\ fs.spriv = "file"
          /\ \E blob \in SeqsUpTo(Identities, MaxIdentities) :
                /\ privBlob' = blob
                /\ privateKeyList' = blob
          /\ idx' = 1
          /\ pc' = "unlock"
          /\ UNCHANGED result
    /\ UNCHANGED <<cfg, fs, stdout, zipVars, publicKeyList, encCall,
                   encryptedBuffer, s3obj>>

\* PrivateKey.Decrypt: the passphrase the key was protected with unlocks it.
Decrypt(entity, password) == entity.pass = password

\* UnlockOutcome with the error of Decrypt dropped: the loop goes on.
UnlockOutcome_IgnoreError(entity, password) ==
    IF entity.priv = "locked" /\ Decrypt(entity, password) THEN "unlocked" ELSE "skip"

\* Lines 196-202, one identity of the loop: left alone, unlocked, or the
\* Decrypt error returned.
UnlockOutcome(entity, password) ==
    IF entity.priv # "none" /\ entity.priv = "locked"
    THEN IF Decrypt(entity, password) THEN "unlocked" ELSE "error"
    ELSE "skip"

Unlock ==
    /\ pc = "unlock"
    /\ idx <= Len(privateKeyList)
    /\ LET o == UnlockOutcome(privateKeyList[idx], cfg.signingKeyPassword)
       IN  \/ /\ o = "error"
              /\ Fail("auth")
              /\ UNCHANGED <<privateKeyList, idx>>
           \/ /\ o # "error"
              /\ privateKeyList' =
                    IF o = "unlocked"
                    THEN [privateKeyList EXCEPT ![idx].priv = "plain"]
                    ELSE privateKeyList
              /\ idx' = idx + 1
              /\ UNCHANGED <<pc, result>>
    /\ UNCHANGED <<cfg, fs, stdout, effects, zipVars, publicKeyList, privBlob,
                   encCall, encryptedBuffer, s3obj>>

\* Line 206: the identity handed to openpgp.Encrypt as signer.
SignerIndex == 1

\* EncryptOutcome of an engine that takes an empty recipient list.
EncryptOutcome_NoRecipientCheck(to, signed) ==
    IF signed.priv = "none" THEN "nosigner"
    ELSE IF signed.priv = "locked" THEN "lockedsigner"
    ELSE "ok"

\* openpgp.Encrypt(ciphertext, to, signed, nil, nil): no recipient is an
\* error before anything is written; a signer without private key material,
\* or with it still protected, is an error after the recipients' session-key
\* packets are written.
EncryptOutcome(to, signed) ==
    IF Len(to) = 0 THEN "norecipient"
    ELSE IF signed.priv = "none" THEN "nosigner"
    ELSE IF signed.priv = "locked" THEN "lockedsigner"
    ELSE "ok"

\* Lines 205-209, after the loop.  Indexing an empty privateKeyList panics.
Encrypt ==
    /\ pc = "unlock"
    /\ idx > Len(privateKeyList)
    /\ IF Len(privateKeyList) < SignerIndex
       THEN /\ Fail("panic")
            /\ UNCHANGED <<encCall, encryptedBuffer>>
       ELSE LET signed == privateKeyList[SignerIndex]
                o == EncryptOutcome(publicKeyList, signed)
            IN  /\ encCall' = [called |-> TRUE, to |-> publicKeyList,
                               index |-> SignerIndex, signed |-> signed]
                /\ encryptedBuffer' =
                      IF o = "norecipient" THEN encryptedBuffer
                      ELSE [encryptedBuffer EXCEPT
                               !.recipients = Len(publicKeyList)]
                /\ \/ /\ o = "ok"
                      /\ pc' = "write"
                      /\ UNCHANGED result
                   \/ /\ o = "ok"
                      /\ Fail("crypto")
                   \/ /\ o # "ok"
                      /\ Fail(o)
    /\ UNCHANGED <<cfg, fs, stdout, effects, zipVars, publicKeyList,
                   privateKeyList, privBlob, idx, s3obj>>

\* Lines 211-214: w.Write(zipBuffer.Bytes()).
WriteBody ==
    /\ pc = "write"
    /\ \/ /\ encryptedBuffer' = [encryptedBuffer EXCEPT
                                    !.body = archive, !.signer = encCall.index]
          /\ pc' = "close"
          /\ UNCHANGED result
       \/ /\ Fail("crypto")
          /\ UNCHANGED encryptedBuffer
    /\ UNCHANGED <<cfg, fs, stdout, effects, zipVars, keyVars, s3obj>>

\* Line 217: w.Close() signs and finalizes; EncryptAndSign returns its error.
CloseWriter ==
    /\ pc = "close"
    /\ \/ /\ encryptedBuffer' = [encryptedBuffer EXCEPT !.final = TRUE]
          /\ result' = SetResult("encrypt", "ok")
          /\ pc' = AfterEncrypt("ok")
       \/ /\ Fail("crypto")
          /\ UNCHANGED encryptedBuffer
    /\ UNCHANGED <<cfg, fs, stdout, effects, zipVars, keyVars, s3obj>>

\* ---------------------------------------------------------- UploadToS3

\* Lines 228-250: NewSession (UploadToS3 panics on its error), then one
\* PutObject whose error is returned.
UploadToS3 ==
    /\ pc = "upload"
    /\ \/ /\ effects' = effects \cup {"session"}
          /\ result' = SetResult("upload", "panic")
          /\ pc' = "panicked"
          /\ UNCHANGED s3obj
       \/ /\ effects' = effects \cup {"session", "put"}
          /\ result' = SetResult("upload", "transport")
          /\ pc' = AfterUpload("transport")
          /\ UNCHANGED s3obj
       \/ /\ effects' = effects \cup {"session", "put"}
          /\ s3obj' = <<[bucket |-> cfg.bucketName, key |-> cfg.s3KeyName,
                         body |-> encryptedBuffer]>>
          /\ result' = SetResult("upload", "ok")
          /\ pc' = AfterUpload("ok")
    /\ UNCHANGED <<cfg, fs, stdout, zipVars, keyVars, encryptedBuffer>>

\* Line 61.
PrintSuccess ==
    /\ pc = "print"
    /\ stdout' = Append(stdout, <<"Successfully uploaded data to",
                                  cfg.bucketName, cfg.s3KeyName>>)
    /\ pc' = "done"
    /\ UNCHANGED <<cfg, fs, result, effects, zipVars, keyVars, encryptedBuffer,
                   s3obj>>

\* ---------------------------------------------------------------- spec

Next ==
    \/ Validate
    \/ ZipStart
    \/ WalkLstatError
    \/ WalkFile
    \/ WalkFileReadError
    \/ WalkDir
    \/ WalkDirError
    \/ ZipClose
    \/ LoadPublicKeyRing
    \/ LoadPrivateKeyRing
    \/ Unlock
    \/ Encrypt
    \/ WriteBody
    \/ CloseWriter
    \/ UploadToS3
    \/ PrintSuccess

Spec == Init /\ [][Next]_vars

\* -------------------------------------------------------------- claims

Terminal(p) == p \in {"exit", "panicked", "done"}

EncryptStage == {"encrypt", "loadpriv", "unlock", "write", "close"}

\* The stages in their forward order; a run that has ended ranks last.
StageRank(p) ==
    IF p = "validate" THEN 0
    ELSE IF p \in {"zip", "walk"} THEN 1
    ELSE IF p \in EncryptStage THEN 2
    ELSE IF p = "upload" THEN 3
    ELSE IF p = "print" THEN 4
    ELSE 5

Failed(r) == r \notin {"none", "ok"}

C1_Order ==
    /\ pc \in {"zip", "walk"} => result.validate = "ok"
    /\ result.zip # "none" => result.validate = "ok"
    /\ (pc \in EncryptStage \/ result.encrypt # "none") => result.zip = "ok"
    /\ (pc = "upload" \/ result.upload # "none") => result.encrypt = "ok"
    /\ ("session" \in effects \/ "put" \in effects) =>
            (result.zip = "ok" /\ result.encrypt = "ok")
    /\ (pc \in {"print", "done"} \/ (Len(stdout) > 0 /\ stdout[1][1] # "Error:"))
            => result.upload = "ok"
    /\ (\E st \in DOMAIN result : Failed(result[st])) => Terminal(pc)

C1_Step ==
    /\ ~Terminal(pc)
    /\ StageRank(pc') >= StageRank(pc)

\* C1: the stages run only in the forward order validate, ZipFolder,
\* EncryptAndSign, UploadToS3, done; a stage is entered only after the one
\* before it returned without error; once a stage fails the run has ended and
\* no step follows; UploadToS3 is never called after a ZipFolder or
\* EncryptAndSign failure; the success line is printed only after UploadToS3
\* returned nil.
C1_StagesForward == [](C1_Order) /\ [][C1_Step]_vars

\* EncryptAndSign failed on the passphrase, the run ended, nothing was uploaded.
C1_Witness ==
    /\ pc = "panicked"
    /\ result.zip = "ok"
    /\ result.encrypt = "auth"
    /\ result.upload = "none"
    /\ "put" \notin effects

\* C2: when validateInputs rejects the configuration, main prints the error
\* and returns: no stage is invoked, no folder file is read, no key file is
\* opened, no session or PutObject is made.
C2_RejectNoSideEffects ==
    result.validate = "rejected" =>
        /\ pc = "exit"
        /\ Len(stdout) = 1 /\ stdout[1][1] = "Error:"
        /\ effects = {}
        /\ result.zip = "none" /\ result.encrypt = "none" /\ result.upload = "none"
        /\ pending = <<>> /\ archive = <<>> /\ found = <<>>
        /\ ~encCall.called
        /\ encryptedBuffer = NoBuffer
        /\ s3obj = <<>>

\* A configuration with an empty bucket name was rejected and main returned.
C2_Witness ==
    /\ result.validate = "rejected"
    /\ pc = "exit"
    /\ cfg.bucketName = ""
    /\ fs.folder = "dir"

\* The configuration the specification calls valid.
ValidConfig ==
    /\ cfg.folderPath # <<>> /\ fs.folder = "dir"
    /\ cfg.trustedPublicKeyPath # "" /\ fs.tpub \in {"file", "dir"}
    /\ cfg.serverPrivateKeyPath # "" /\ fs.spriv \in {"file", "dir"}
    /\ cfg.signingKeyPassword # ""
    /\ cfg.bucketName # "" /\ cfg.s3KeyName # "" /\ cfg.awsRegion # ""
    /\ cfg.awsAccessKey # "" /\ cfg.awsSecretKey # ""

\* C3: validation accepts exactly when the folder path exists and is a
\* directory, both key paths exist and the six other values are non-empty;
\* in every other case it reports a validation error and main returns cleanly.
C3_ValidationExact ==
    result.validate # "none" =>
        /\ (result.validate = "ok") <=> ValidConfig
        /\ ~ValidConfig =>
              /\ result.validate = "rejected"
              /\ pc = "exit"
              /\ Len(stdout) = 1 /\ stdout[1][1] = "Error:"

\* Some identity of the private blob is protected by a passphrase other than
\* the one supplied.
WrongPassphraseAt(i) ==
    /\ i \in 1..Len(privBlob)
    /\ privBlob[i].priv = "locked"
    /\ privBlob[i].pass # cfg.signingKeyPassword

\* C4: when the supplied passphrase does not unlock a passphrase-protected
\* identity of the private blob (the signer, the first listed, included),
\* EncryptAndSign fails with the authentication error before openpgp.Encrypt
\* is called, and the run makes no session and no PutObject.
C4_WrongPassphraseNoUpload ==
    \A i \in 1..Len(privBlob) :
        WrongPassphraseAt(i) =>
            /\ ~encCall.called
            /\ encryptedBuffer = NoBuffer
            /\ result.encrypt \in {"none", "auth"}
            /\ result.encrypt = "none" => (pc = "unlock" /\ idx <= i)
            /\ result.encrypt = "auth" => pc = "panicked"
            /\ result.upload = "none"
            /\ "session" \notin effects /\ "put" \notin effects
            /\ s3obj = <<>>

\* The signer is protected by another passphrase and the run ended on it.
C4_Witness ==
    /\ WrongPassphraseAt(SignerIndex)
    /\ result.encrypt = "auth"
    /\ pc = "panicked"
    /\ Len(publicKeyList) > 0

\* The public ring was opened and parsed (EncryptAndSign went on to the
\* private key).
PublicRingRead == "openpriv" \in effects

\* C5: when the trusted-public blob yields no recipient, EncryptAndSign never
\* succeeds and writes nothing to encryptedBuffer, and the run ends before
\* any upload attempt; whatever is put was encrypted for at least one
\* recipient and finalized.
C5_NoRecipientNoUpload ==
    /\ (PublicRingRead /\ Len(publicKeyList) = 0) =>
          /\ result.encrypt # "ok"
          /\ encryptedBuffer = NoBuffer
          /\ pc \notin {"write", "close", "upload", "print", "done"}
          /\ result.upload = "none"
          /\ "session" \notin effects /\ "put" \notin effects
          /\ s3obj = <<>>
    /\ "put" \in effects =>
          /\ encryptedBuffer.recipients >= 1
          /\ encryptedBuffer.final
    /\ s3obj # <<>> => (s3obj[1].body.recipients >= 1 /\ s3obj[1].body.final)

\* openpgp.Encrypt was called with no recipient and a usable signer, and failed.
C5_Witness ==
    /\ PublicRingRead
    /\ Len(publicKeyList) = 0
    /\ encCall.called
    /\ encCall.signed.priv = "plain"
    /\ result.encrypt = "norecipient"
    /\ pc = "panicked"

\* An identity holds usable private key material: unprotected, or protected
\* by the supplied passphrase.
Usable(e) ==
    \/ e.priv = "plain"
    \/ e.priv = "locked" /\ e.pass = cfg.signingKeyPassword

UsableIndexes == {i \in 1..Len(privBlob) : Usable(privBlob[i])}

\* C6: the signer handed to openpgp.Encrypt is the first identity, in the
\* blob's listed order, that holds usable private key material; when no
\* identity does, the stage fails with the authentication error and
\* openpgp.Encrypt is not called.
C6_FirstUsableSigner ==
    /\ encCall.called =>
          /\ UsableIndexes # {}
          /\ \A j \in UsableIndexes : encCall.index <= j
          /\ encCall.index \in UsableIndexes
    /\ (UsableIndexes = {} /\ Len(privBlob) > 0 /\ result.encrypt # "none") =>
          result.encrypt = "auth"

\* The name of a relative path, its names joined by the separator.
RelName(rel) == JoinSep([i \in 1..Len(rel) |-> <<rel[i]>>])

\* C7: every archive entry's name is the file's path relative to the root;
\* it does not begin with a separator and holds no ".." element.
C7_EntryNamesRelative ==
    \A i \in 1..Len(archive) :
        /\ archive[i].name = RelName(found[i].rel)
        /\ archive[i].name[1] # Sep
        /\ \A k \in 1..Len(Split(archive[i].name)) :
              Split(archive[i].name)[k] # DotDot

NameIndex(c) == CHOOSE i \in 1..Len(Alphabet) : Alphabet[i] = c

\* Per-directory lexicographic order of two relative paths.
RelLess(a, b) ==
    \E k \in 1..Len(a) :
        /\ k <= Len(b)
        /\ \A j \in 1..(k - 1) : a[j] = b[j]
        /\ NameIndex(a[k]) < NameIndex(b[k])

\* C8: a ZipFolder that returns nil over a tree of regular files and
\* directories, all readable, leaves a finalized archive whose entries are
\* the regular files met, each once, keyed by its relative path, with its
\* bytes, in per-directory lexicographic order (none for an empty tree).
C8_ArchiveIsTheTree ==
    (result.zip = "ok" /\ ~ioFailed) =>
        /\ zipClosed
        /\ Len(archive) = Len(found)
        /\ \A i \in 1..Len(archive) :
              archive[i] = [name |-> RelName(found[i].rel), data |-> found[i].data]
        /\ \A i, j \in 1..Len(archive) :
              i < j => RelLess(found[i].rel, found[j].rel)

\* C9: once a file or directory under the root was unreadable in the walk,
\* ZipFolder does not return nil (it aborts, by its error or by a panic), and
\* EncryptAndSign is not entered with the archive.
C9_UnreadableAborts ==
    ioFailed =>
        /\ result.zip # "ok"
        /\ result.zip # "none" => pc = "panicked"
        /\ pc \notin EncryptStage \cup {"upload", "print", "done"}

\* C10: when openpgp.Encrypt is called, the signer handed to it has private
\* key material and it is not passphrase-protected any more.
C10_SignerUnlockedAtEncrypt ==
    encCall.called => encCall.signed.priv = "plain"

====
